---- MODULE Spec2Model ----
\* State-machine model of ImapSyncService (src/unnamed/part_003): the
\* per-account connection lifecycle, the initial historical sync, the idle /
\* new-mail loop and the per-message assembly of records.
\*
\* Each action is one callback of the service together with the event that
\* triggers it.  The IMAP client object is the environment: it emits 'ready',
\* 'error', 'end', 'mail', the fetch events and the message events.  Its
\* commands are served one at a time in the order they were issued, 'error'
\* and 'end' close the socket, and a message's 'attributes' event is emitted
\* immediately before its 'end' event.  A fetch that fails emits 'error',
\* then 'end', and no message after its 'error'.  No message of the mailbox
\* is renumbered, so one number stands for a message's sequence number
\* and for its UID.
EXTENDS Integers, Sequences, FiniteSets, TLC

\* ---------------------------------------------------------------- bounds
MaxConns == 2         \* connection objects created in one run
MaxSearch == 1        \* messages the initial search can return
MaxNew == 2           \* new messages reported by one notification
MaxNotifs == 2        \* new-mail notifications received in one run
MaxMsgs == 2          \* messages delivered by the server in one run
MaxJobs == 2          \* 'emailReceived' events handled in one run
MaxBatchSearch == 11  \* messages the initial search can return, and
MaxBatchMsgs == 11    \* messages delivered, in a run of the batching alone
MaxRetriesArg == 4    \* largest maxRetries argument besides the default
MaxDelayArg == 2      \* largest initialDelay argument besides the default

\* ------------------------------------------------------ program constants
batchSize == 10
DefaultMaxRetries == 5
DefaultInitialDelay == 1000

Accounts == {"a1", "a2"}
ConnIds == 1..MaxConns
NotifIds == 1..MaxNotifs
\* a delivered message: subject and text body, no text part, a body that
\* simpleParser rejects, or a text body without a Subject header
MsgKinds == {"text", "empty", "bad", "nosubj"}

VARIABLES
    accountConfigs,     \* constructor argument: the configured accounts
    accounts,           \* Map accountId -> connection (0: no entry)
    connectionsActive,  \* Map accountId -> "true" | "false" ("unset": no entry)
    watchdogTimers,     \* Map accountId -> timer handle
    orphanTimers,       \* pending watchdog timers no longer held by the map
    reconnectTimers,    \* pending setTimeout(connectAccount) per account
    conn,               \* the connection objects created so far
    fetches,            \* per connection: fetch commands issued, not finished
    cur,                \* per connection: the message being delivered
    nextConn,           \* next connection object to be created
    started,            \* startSync() was called
    stopped,            \* stopSync() has returned
    notifs,             \* the new-mail notifications being served
    nNotif,             \* number of notifications received so far
    nMsgs,              \* number of messages delivered so far
    lastEmit,           \* the record emitted on 'emailReceived' by the last
                        \* step (NoEmit: the step emitted nothing)
    crashed,            \* the process was terminated by an uncaught error
    jobs,               \* the runs of the 'emailReceived' handler
    esDocs,             \* the documents of the Elasticsearch index
    webhooks,           \* the notification requests sent so far
    retry,              \* the call of retryWithBackoff in progress
    limits              \* the size of the run: the largest result of the
                        \* initial search and the number of messages the
                        \* server delivers

\* the state of the 'emailReceived' pipeline of src/index.ts and of the
\* services it calls
pipeVars == <<jobs, esDocs, webhooks, retry>>

vars == <<pipeVars, limits, crashed, accountConfigs, accounts, connectionsActive, watchdogTimers,
          orphanTimers, reconnectTimers, conn, fetches, cur, nextConn,
          started, stopped, notifs, nNotif, nMsgs, lastEmit>>

\* ---------------------------------------------------------------- values
NoTimer == [st |-> "none", conn |-> 0]
\* no call of retryWithBackoff has been made
NoCall == [st |-> "none", maxRetries |-> 0, initialDelay |-> 0, retries |-> 0,
           delay |-> 0, calls |-> 0, waits |-> <<>>,
           result |-> [kind |-> "none", call |-> 0]]
NoMsg == [num |-> 0, kind |-> "none", id |-> <<"none", 0>>,
          subject |-> "unset", body |-> "unset", parsing |-> FALSE]
NoEmit == [conn |-> 0, acct |-> "none", num |-> 0, kind |-> "none",
           id |-> <<"none", 0>>, subject |-> "unset", body |-> "unset",
           src |-> "none", notif |-> 0]
\* a notification: the connection, the reported number of new messages and
\* mailbox total, the records emitted for it and the last number emitted;
\* eligible: it arrived on an idling connection and so far every message of
\* its range was delivered well-formed and had both parts parsed at its end
NoNotif == [conn |-> 0, n |-> 0, total |-> 0, eligible |-> FALSE,
            emitted |-> 0, lastNum |-> 0]
NewConn == [acct |-> "none", sock |-> "new", readyH |-> FALSE,
            errorH |-> FALSE, endH |-> FALSE, mailListeners |-> 0,
            endCalled |-> FALSE, evErr |-> FALSE, evEnd |-> FALSE,
            box |-> FALSE, total |-> 0, idling |-> FALSE, sync |-> "none",
            batches |-> <<>>, batchIndex |-> 0, processedCount |-> 0]

Min(x, y) == IF x < y THEN x ELSE y
Range(lo, hi) == [i \in 1..(hi - lo + 1) |-> lo + i - 1]

\* uuidv4(): a random identifier, unrelated to account and message
Uuid == <<"uuid", 0>>

\* `${accountId}-${attrs.uid}`
MkId(accountId, uid) == <<accountId, uid>>

Batches_Whole(results) == <<results>>

\* the batches of the initial sync: results.slice(i, i + batchSize)
Batches(results) ==
    LET n == Len(results)
        nb == (n + batchSize - 1) \div batchSize
    IN [k \in 1..nb |->
          SubSeq(results, (k - 1) * batchSize + 1, Min(k * batchSize, n))]

\* imap.end() queues LOGOUT behind the commands already issued: a command
\* issued on the connection after end() was called is never served
Issue(cn, fs, c, cmds) ==
    IF cn[c].endCalled THEN fs ELSE [fs EXCEPT ![c] = @ \o cmds]

Awaiting_Resolved(cn, c, what) == "resolved"

\* the state of initialSync once it has issued its next command
Awaiting(cn, c, what) == IF cn[c].endCalled THEN "unserved" ELSE what

FetchRange_OffByOne(total, numNewMsgs) ==
    [lo |-> total - numNewMsgs, hi |-> total]

\* the sequence range requested for a notification of numNewMsgs messages
FetchRange(total, numNewMsgs) ==
    [lo |-> total - numNewMsgs + 1, hi |-> total]

Complete_SubjectOnly(m) == m.subject # "unset" /\ m.subject # ""

\* email.subject && email.body
Complete(m) == m.subject # "unset" /\ m.subject # ""
               /\ m.body # "unset" /\ m.body # ""

Created == 1..(nextConn - 1)
PendingReconnects ==
    LET RECURSIVE Sum(_)
        Sum(S) == IF S = {} THEN 0
                  ELSE LET a == CHOOSE x \in S : TRUE
                       IN reconnectTimers[a] + Sum(S \ {a})
    IN Sum(Accounts)

\* ------------------------------------------------------------------ Init
\* the service constructed for the given account configurations
Constructed(configs, lim) ==
    /\ accountConfigs = configs
    /\ limits = lim
    /\ accounts = [a \in Accounts |-> 0]
    /\ connectionsActive = [a \in Accounts |-> "unset"]
    /\ watchdogTimers = [a \in Accounts |-> NoTimer]
    /\ orphanTimers = [c \in ConnIds |-> 0]
    /\ reconnectTimers = [a \in Accounts |-> 0]
    /\ conn = [c \in ConnIds |-> NewConn]
    /\ fetches = [c \in ConnIds |-> <<>>]
    /\ cur = [c \in ConnIds |-> NoMsg]
    /\ nextConn = 1
    /\ started = FALSE
    /\ stopped = FALSE
    /\ notifs = [k \in NotifIds |-> NoNotif]
    /\ nNotif = 0
    /\ nMsgs = 0
    /\ lastEmit = NoEmit
    /\ crashed = FALSE
    /\ jobs = <<>>
    /\ esDocs = <<>>
    /\ webhooks = <<>>
    /\ retry = NoCall

RunLimits == [search |-> MaxSearch, msgs |-> MaxMsgs]

Init == Constructed(<<"a1">>, RunLimits)

\* ------------------------------------------------- helpers of the service
AcctOf(c) == conn[c].acct

\* cleanupConnection: the active flag after the call
CleanupActive(act, a) == [act EXCEPT ![a] = "false"]

\* cleanupConnection: the watchdog map after the call
CleanupTimers(wt, a) ==
    IF wt[a].st # "none" THEN [wt EXCEPT ![a] = NoTimer] ELSE wt

RestartIdleConn_Skips(cn, c, act) == cn

\* restartIdle: imap.idle() when the account is marked active
RestartIdleConn(cn, c, act) ==
    IF act[cn[c].acct] = "true" THEN [cn EXCEPT ![c].idling = TRUE] ELSE cn

\* restartIdle: watchdogTimers.set(accountId, watchdogTimer)
ArmWatchdog(wt, a, c, act) ==
    IF act[a] = "true" THEN [wt EXCEPT ![a] = [st |-> "live", conn |-> c]]
    ELSE wt

\* restartIdle: the timer the map held is overwritten, not cleared
OrphanOnArm(ot, wt, a, act) ==
    IF act[a] = "true" /\ wt[a].st = "live"
    THEN [ot EXCEPT ![wt[a].conn] = @ + 1]
    ELSE ot

StartIdleConn_ListenerOnly(cn, c, act) ==
    [cn EXCEPT ![c].mailListeners = @ + 1]

\* startIdleMode: registers a 'mail' listener, then calls restartIdle
StartIdleConn(cn, c, act) ==
    RestartIdleConn([cn EXCEPT ![c].mailListeners = @ + 1], c, act)

\* connectAccount: a new Imap object with its three once-handlers
ConnectedConn(a) ==
    [NewConn EXCEPT !.acct = a, !.sock = "connecting", !.readyH = TRUE,
                    !.errorH = TRUE, !.endH = TRUE]

\* the fetch command of one initial-sync batch
SyncFetch(batch) ==
    [kind |-> "sync", notif |-> 0, todo |-> batch, lo |-> 0, hi |-> 0]

\* the fetch command issued by fetchNewEmails
MailFetch(k, total, numNewMsgs) ==
    LET r == FetchRange(total, numNewMsgs)
    IN [kind |-> "mail", notif |-> k, todo |-> Range(r.lo, r.hi),
        lo |-> r.lo, hi |-> r.hi]

Copies(n, x) == [i \in 1..n |-> x]

\* the fetch commands of connection c still serving notification k
PendingFor(fs, k) == {i \in 1..Len(fs) : fs[i].kind = "mail" /\ fs[i].notif = k}

\* a notification is dropped from notifs once its last fetch has finished
Retire(ns, k, fs) == IF PendingFor(fs, k) = {} THEN [ns EXCEPT ![k] = NoNotif]
                     ELSE ns

\* --------------------------------------------------------------- actions
\* startSync: connectAccount for every configured account, in order
StartSync ==
    /\ ~started /\ ~stopped
    /\ started' = TRUE
    /\ LET n == Len(accountConfigs) IN
       /\ conn' = [c \in ConnIds |->
                     IF c <= n THEN ConnectedConn(accountConfigs[c])
                     ELSE conn[c]]
       /\ accounts' = [a \in Accounts |->
                     IF \E i \in 1..n : accountConfigs[i] = a
                     THEN CHOOSE i \in 1..n : accountConfigs[i] = a
                     ELSE accounts[a]]
       /\ nextConn' = n + 1
    /\ UNCHANGED <<pipeVars, limits, crashed, accountConfigs, connectionsActive, watchdogTimers,
                   orphanTimers, reconnectTimers, fetches, cur, stopped,
                   notifs, nNotif, nMsgs>>
    /\ lastEmit' = NoEmit

\* a reconnect timer fires: connectAccount(config)
ReconnectFire(a) ==
    /\ reconnectTimers[a] > 0
    /\ nextConn <= MaxConns
    /\ reconnectTimers' = [reconnectTimers EXCEPT ![a] = @ - 1]
    /\ conn' = [conn EXCEPT ![nextConn] = ConnectedConn(a)]
    /\ accounts' = [accounts EXCEPT ![a] = nextConn]
    /\ nextConn' = nextConn + 1
    /\ UNCHANGED <<pipeVars, limits, crashed, accountConfigs, connectionsActive, watchdogTimers,
                   orphanTimers, fetches, cur, started, stopped, notifs,
                   nNotif, nMsgs>>
    /\ lastEmit' = NoEmit

\* 'ready': onImapReady marks the account active and starts initialSync,
\* which issues openBox
ConnReady(c) ==
    /\ conn[c].sock = "connecting" /\ conn[c].readyH
    /\ connectionsActive' = [connectionsActive EXCEPT ![AcctOf(c)] = "true"]
    /\ conn' = [conn EXCEPT ![c].sock = "ready", ![c].readyH = FALSE,
                            ![c].sync = Awaiting(conn, c, "openBox")]
    /\ UNCHANGED <<pipeVars, limits, crashed, accountConfigs, accounts, watchdogTimers, orphanTimers,
                   reconnectTimers, fetches, cur, nextConn, started, stopped,
                   notifs, nNotif, nMsgs>>
    /\ lastEmit' = NoEmit

\* the socket of c is closed: the client delivers no further callback or
\* event of its commands, and nothing reads the mailbox state of c again
Closed(cn) ==
    [cn EXCEPT !.sock = "closed", !.idling = FALSE, !.box = FALSE,
               !.total = 0, !.sync = "none", !.batches = <<>>,
               !.batchIndex = 0, !.processedCount = 0, !.mailListeners = 0]

\* the notifications of a closed connection are void
Voided(ns, c) == [k \in NotifIds |-> IF ns[k].conn = c THEN NoNotif ELSE ns[k]]

\* 'error': the socket is gone; onImapError cleans up and always schedules
\* a reconnect
ConnError(c) ==
    /\ conn[c].errorH /\ ~conn[c].evErr
    /\ \/ conn[c].sock \in {"connecting", "ready"}
       \/ conn[c].sock = "closed" /\ conn[c].evEnd
    /\ conn' = [conn EXCEPT ![c] = [Closed(@) EXCEPT !.evErr = TRUE,
                                                     !.errorH = FALSE]]
    /\ notifs' = Voided(notifs, c)
    /\ fetches' = [fetches EXCEPT ![c] = <<>>]
    /\ cur' = [cur EXCEPT ![c] = NoMsg]
    /\ connectionsActive' = CleanupActive(connectionsActive, AcctOf(c))
    /\ watchdogTimers' = CleanupTimers(watchdogTimers, AcctOf(c))
    /\ reconnectTimers' = [reconnectTimers EXCEPT ![AcctOf(c)] = @ + 1]
    /\ UNCHANGED <<pipeVars, limits, crashed, accountConfigs, accounts, orphanTimers, nextConn, started,
                   stopped, nNotif, nMsgs>>
    /\ lastEmit' = NoEmit

\* the process has exited: every socket is closed and no handler is left
Exited(cn) == [Closed(cn) EXCEPT !.readyH = FALSE, !.errorH = FALSE,
                                 !.endH = FALSE]

\* a further 'error' of a connection whose once('error') handler was
\* consumed by the first: the emitter has no 'error' listener, emit throws
\* and, with no uncaughtException handler installed, the process exits
UnhandledError(c) ==
    /\ conn[c].evErr /\ ~conn[c].errorH /\ ~crashed
    /\ crashed' = TRUE
    /\ conn' = [d \in ConnIds |-> Exited(conn[d])]
    /\ accounts' = [a \in Accounts |-> 0]
    /\ connectionsActive' = [a \in Accounts |-> "unset"]
    /\ watchdogTimers' = [a \in Accounts |-> NoTimer]
    /\ orphanTimers' = [d \in ConnIds |-> 0]
    /\ reconnectTimers' = [a \in Accounts |-> 0]
    /\ fetches' = [d \in ConnIds |-> <<>>]
    /\ cur' = [d \in ConnIds |-> NoMsg]
    /\ notifs' = [k \in NotifIds |-> NoNotif]
    /\ lastEmit' = NoEmit
    /\ UNCHANGED <<pipeVars, limits, accountConfigs, nextConn, started,
                   stopped, nNotif, nMsgs>>

\* onImapEnd: the reconnect decision, taken after cleanupConnection
EndReconnects(act, a) == act[a] = "true"

\* 'end': the socket is gone; onImapEnd cleans up, then reconnects if the
\* account is still marked active
ConnEnd(c) ==
    /\ conn[c].endH /\ ~conn[c].evEnd
    /\ \/ conn[c].sock \in {"connecting", "ready"}
       \/ conn[c].sock = "closed" /\ conn[c].evErr
    /\ conn' = [conn EXCEPT ![c] = [Closed(@) EXCEPT !.evEnd = TRUE,
                                                     !.endH = FALSE]]
    /\ notifs' = Voided(notifs, c)
    /\ fetches' = [fetches EXCEPT ![c] = <<>>]
    /\ cur' = [cur EXCEPT ![c] = NoMsg]
    /\ connectionsActive' = CleanupActive(connectionsActive, AcctOf(c))
    /\ watchdogTimers' = CleanupTimers(watchdogTimers, AcctOf(c))
    /\ reconnectTimers' =
          IF EndReconnects(connectionsActive', AcctOf(c))
             /\ (nextConn - 1) + PendingReconnects < MaxConns
          THEN [reconnectTimers EXCEPT ![AcctOf(c)] = @ + 1]
          ELSE reconnectTimers
    /\ UNCHANGED <<pipeVars, limits, crashed, accountConfigs, accounts, orphanTimers, nextConn, started,
                   stopped, nNotif, nMsgs>>
    /\ lastEmit' = NoEmit

\* stopSync: for every entry of accounts mark inactive, clear the watchdog
\* the map holds, call imap.end(); then clear the three maps
StopSync ==
    /\ started /\ ~stopped /\ ~crashed
    /\ stopped' = TRUE
    /\ conn' = [c \in ConnIds |->
                  IF \E a \in Accounts : accounts[a] = c
                  THEN [conn[c] EXCEPT !.endCalled = TRUE] ELSE conn[c]]
    /\ orphanTimers' = [c \in ConnIds |->
                  orphanTimers[c] +
                  Cardinality({a \in Accounts :
                      accounts[a] = 0 /\ watchdogTimers[a].st = "live"
                      /\ watchdogTimers[a].conn = c})]
    /\ accounts' = [a \in Accounts |-> 0]
    /\ connectionsActive' = [a \in Accounts |-> "unset"]
    /\ watchdogTimers' = [a \in Accounts |-> NoTimer]
    /\ UNCHANGED <<pipeVars, limits, crashed, accountConfigs, reconnectTimers, fetches, cur, nextConn,
                   started, notifs, nNotif, nMsgs>>
    /\ lastEmit' = NoEmit

\* ------------------------------------------------------ initial sync
\* openBox callback without error: the mailbox is open, search is issued
OpenBoxOk(c) ==
    /\ conn[c].sock = "ready" /\ conn[c].sync = "openBox"
    /\ \E t \in 0..limits.search :
         conn' = [conn EXCEPT ![c].box = TRUE, ![c].total = t,
                              ![c].sync = Awaiting(conn, c, "search")]
    /\ UNCHANGED <<pipeVars, limits, crashed, accountConfigs, accounts, connectionsActive,
                   watchdogTimers, orphanTimers, reconnectTimers, fetches,
                   cur, nextConn, started, stopped, notifs, nNotif, nMsgs>>
    /\ lastEmit' = NoEmit

\* openBox or search callback with an error: initialSync rejects and
\* onImapReady logs it
SyncCallbackErr(c) ==
    /\ conn[c].sock = "ready" /\ conn[c].sync \in {"openBox", "search"}
    /\ conn' = [conn EXCEPT ![c].sync = "rejected"]
    /\ UNCHANGED <<pipeVars, limits, crashed, accountConfigs, accounts, connectionsActive,
                   watchdogTimers, orphanTimers, reconnectTimers, fetches,
                   cur, nextConn, started, stopped, notifs, nNotif, nMsgs>>
    /\ lastEmit' = NoEmit

\* search callback without error: no result resolves at once (and
\* onImapReady goes on to startIdleMode); otherwise processBatch(0)
SearchOk(c) ==
    /\ conn[c].sock = "ready" /\ conn[c].sync = "search"
    /\ LET a == AcctOf(c)
           results == Range(1, conn[c].total)
           bs == Batches(results)
       IN IF Len(results) = 0
          THEN /\ conn' = StartIdleConn([conn EXCEPT ![c].sync = "resolved"],
                                        c, connectionsActive)
               /\ watchdogTimers' =
                     ArmWatchdog(watchdogTimers, a, c, connectionsActive)
               /\ orphanTimers' = OrphanOnArm(orphanTimers, watchdogTimers,
                                              a, connectionsActive)
               /\ UNCHANGED fetches
          ELSE /\ conn' = [conn EXCEPT
                                 ![c].sync = Awaiting(conn, c, "fetching"),
                                 ![c].batches = bs,
                                 ![c].batchIndex = 0,
                                 ![c].processedCount = 0]
               /\ fetches' = Issue(conn, fetches, c, <<SyncFetch(bs[1])>>)
               /\ UNCHANGED <<watchdogTimers, orphanTimers>>
    /\ UNCHANGED <<pipeVars, limits, crashed, accountConfigs, accounts, connectionsActive,
                   reconnectTimers, cur, nextConn, started, stopped, notifs,
                   nNotif, nMsgs>>
    /\ lastEmit' = NoEmit

\* ------------------------------------------------- one fetched message
Serving(c) == conn[c].sock = "ready" /\ fetches[c] # <<>>

\* fetch 'message': a new partial record with a random identifier
FetchMessage(c) ==
    /\ Serving(c) /\ cur[c].num = 0 /\ Head(fetches[c]).todo # <<>>
    /\ nMsgs < limits.msgs
    /\ nMsgs' = nMsgs + 1
    /\ LET f == Head(fetches[c]) IN
       /\ \E kind \in MsgKinds :
            /\ cur' = [cur EXCEPT ![c] =
                         [NoMsg EXCEPT !.num = Head(f.todo), !.kind = kind,
                                       !.id = Uuid]]
            /\ notifs' = IF f.kind = "mail" /\ kind \notin {"text", "nosubj"}
                         THEN [notifs EXCEPT ![f.notif].eligible = FALSE]
                         ELSE notifs
       /\ fetches' = [fetches EXCEPT ![c] =
                         <<[f EXCEPT !.todo = Tail(@)]>> \o Tail(fetches[c])]
    /\ UNCHANGED <<pipeVars, limits, crashed, accountConfigs, accounts, connectionsActive,
                   watchdogTimers, orphanTimers, reconnectTimers, conn,
                   nextConn, started, stopped, nNotif>>
    /\ lastEmit' = NoEmit

\* the server has no message for a requested number: no event for it
SkipMessage(c) ==
    /\ Serving(c) /\ cur[c].num = 0 /\ Head(fetches[c]).todo # <<>>
    /\ LET f == Head(fetches[c]) IN
       /\ fetches' = [fetches EXCEPT ![c] =
                         <<[f EXCEPT !.todo = Tail(@)]>> \o Tail(fetches[c])]
       /\ notifs' = IF f.kind = "mail"
                    THEN [notifs EXCEPT ![f.notif].eligible = FALSE]
                    ELSE notifs
    /\ UNCHANGED <<pipeVars, limits, crashed, accountConfigs, accounts, connectionsActive,
                   watchdogTimers, orphanTimers, reconnectTimers, conn, cur,
                   nextConn, started, stopped, nNotif, nMsgs>>
    /\ lastEmit' = NoEmit

\* email.subject = parsedHeader.subject?.[0] || '(No Subject)'
HeaderSubject(kind) == IF kind = "nosubj" THEN "(No Subject)" ELSE "Subj"

\* header stream 'end': Imap.parseHeader fills the header fields
HeaderEnd(c) ==
    /\ cur[c].num # 0 /\ cur[c].subject = "unset"
    /\ cur' = [cur EXCEPT ![c].subject = HeaderSubject(cur[c].kind)]
    /\ UNCHANGED <<pipeVars, limits, crashed, accountConfigs, accounts, connectionsActive,
                   watchdogTimers, orphanTimers, reconnectTimers, conn,
                   fetches, nextConn, started, stopped, notifs, nNotif, nMsgs>>
    /\ lastEmit' = NoEmit

\* body stream 'end': the handler suspends in await simpleParser(buffer)
BodyEnd(c) ==
    /\ cur[c].num # 0 /\ cur[c].body = "unset" /\ ~cur[c].parsing
    /\ cur' = [cur EXCEPT ![c].parsing = TRUE]
    /\ UNCHANGED <<pipeVars, limits, crashed, accountConfigs, accounts, connectionsActive,
                   watchdogTimers, orphanTimers, reconnectTimers, conn,
                   fetches, nextConn, started, stopped, notifs, nNotif, nMsgs>>
    /\ lastEmit' = NoEmit

\* email.body after the parse: parsed.text || '', or the raw buffer when
\* simpleParser throws
ParsedBody(kind) ==
    CASE kind \in {"text", "nosubj"} -> "text"
      [] kind = "empty" -> ""
      [] OTHER -> "raw"

\* simpleParser settles: the body handler resumes and stores the body
ParseDone(c) ==
    /\ cur[c].num # 0 /\ cur[c].parsing
    /\ cur' = [cur EXCEPT ![c].parsing = FALSE,
                          ![c].body = ParsedBody(cur[c].kind)]
    /\ UNCHANGED <<pipeVars, limits, crashed, accountConfigs, accounts, connectionsActive,
                   watchdogTimers, orphanTimers, reconnectTimers, conn,
                   fetches, nextConn, started, stopped, notifs, nNotif, nMsgs>>
    /\ lastEmit' = NoEmit

WithAttributes_KeepsId(m, a) == m

\* msg 'attributes': email.id = `${accountId}-${attrs.uid}`
WithAttributes(m, a) == [m EXCEPT !.id = MkId(a, m.num)]

\* the record handed to 'emailReceived'
Emitted(m, c, f) ==
    [conn |-> c, acct |-> AcctOf(c), num |-> m.num, kind |-> m.kind,
     id |-> m.id, subject |-> m.subject, body |-> m.body, src |-> f.kind,
     notif |-> f.notif]

\* msg 'end' (preceded by 'attributes'): emit when subject and body are
\* set; in the initial sync count the message and, when the batch is
\* complete, processBatch(batchIndex + 1)
MsgEnd(c) ==
    /\ Serving(c) /\ cur[c].num # 0
    /\ LET f == Head(fetches[c])
           a == AcctOf(c)
           m == WithAttributes(cur[c], a)
           emit == Complete(m)
           k == f.notif
           pc == conn[c].processedCount + 1
           bi == conn[c].batchIndex
           batchDone == pc = Len(conn[c].batches[bi + 1])
           last == bi + 1 >= Len(conn[c].batches)
           resolves == batchDone /\ last /\ conn[c].sync = "fetching"
       IN
       /\ cur' = [cur EXCEPT ![c] = NoMsg]
       /\ lastEmit' = IF emit THEN Emitted(m, c, f) ELSE NoEmit
       /\ IF f.kind = "mail"
          THEN /\ notifs' = [notifs EXCEPT ![k] =
                   [@ EXCEPT !.emitted = IF emit THEN @ + 1 ELSE @,
                             !.lastNum = IF emit THEN m.num ELSE @,
                             !.eligible = @ /\ emit]]
               /\ UNCHANGED <<conn, fetches, watchdogTimers, orphanTimers>>
          ELSE /\ UNCHANGED notifs
               /\ IF ~batchDone
                  THEN /\ conn' = [conn EXCEPT ![c].processedCount = pc]
                       /\ UNCHANGED <<fetches, watchdogTimers, orphanTimers>>
                  ELSE IF ~last
                  THEN /\ conn' = [conn EXCEPT ![c].batchIndex = bi + 1,
                                               ![c].processedCount = 0]
                       /\ fetches' = Issue(conn, fetches, c,
                              <<SyncFetch(conn[c].batches[bi + 2])>>)
                       /\ UNCHANGED <<watchdogTimers, orphanTimers>>
                  ELSE IF resolves
                  THEN /\ conn' = StartIdleConn(
                              [conn EXCEPT ![c].processedCount = pc,
                                           ![c].sync = "resolved"],
                              c, connectionsActive)
                       /\ watchdogTimers' = ArmWatchdog(watchdogTimers, a, c,
                                                        connectionsActive)
                       /\ orphanTimers' = OrphanOnArm(orphanTimers,
                              watchdogTimers, a, connectionsActive)
                       /\ UNCHANGED fetches
                  ELSE /\ conn' = [conn EXCEPT ![c].processedCount = pc]
                       /\ UNCHANGED <<fetches, watchdogTimers, orphanTimers>>
    /\ UNCHANGED <<pipeVars, limits, crashed, accountConfigs, accounts, connectionsActive,
                   reconnectTimers, nextConn, started, stopped, nNotif,
                   nMsgs>>

\* fetch 'end': the initial sync only logs; fetchNewEmails restarts idle
FetchEnd(c) ==
    /\ Serving(c) /\ cur[c].num = 0 /\ Head(fetches[c]).todo = <<>>
    /\ fetches' = [fetches EXCEPT ![c] = Tail(@)]
    /\ LET f == Head(fetches[c])
           a == AcctOf(c)
       IN IF f.kind = "mail"
          THEN /\ conn' = StartIdleConn(conn, c, connectionsActive)
               /\ watchdogTimers' = ArmWatchdog(watchdogTimers, a, c,
                                                connectionsActive)
               /\ orphanTimers' = OrphanOnArm(orphanTimers, watchdogTimers,
                                              a, connectionsActive)
          ELSE UNCHANGED <<conn, watchdogTimers, orphanTimers>>
    /\ notifs' = IF Head(fetches[c]).kind = "mail"
                 THEN Retire(notifs, Head(fetches[c]).notif, fetches'[c])
                 ELSE notifs
    /\ UNCHANGED <<pipeVars, limits, crashed, accountConfigs, accounts, connectionsActive,
                   reconnectTimers, cur, nextConn, started, stopped,
                   nNotif, nMsgs>>
    /\ lastEmit' = NoEmit

\* the failed command is finished: the client delivers no further message
\* of this fetch
AfterError(fs, c) == [fs EXCEPT ![c] = Tail(@)]

\* fetch 'error', followed on the next tick by the 'end' the client emits
\* for every finished fetch: the initial sync rejects, then logs;
\* fetchNewEmails logs, then restarts idle
FetchError(c) ==
    /\ Serving(c) /\ cur[c].num = 0
    /\ fetches' = AfterError(fetches, c)
    /\ LET f == Head(fetches[c])
           a == AcctOf(c)
       IN IF f.kind = "mail"
          THEN /\ conn' = StartIdleConn(conn, c, connectionsActive)
               /\ watchdogTimers' = ArmWatchdog(watchdogTimers, a, c,
                                                connectionsActive)
               /\ orphanTimers' = OrphanOnArm(orphanTimers, watchdogTimers,
                                              a, connectionsActive)
               /\ notifs' = [notifs EXCEPT ![f.notif].eligible = FALSE]
          ELSE /\ conn' = IF conn[c].sync = "fetching"
                          THEN [conn EXCEPT ![c].sync = "rejected"]
                          ELSE conn
               /\ UNCHANGED <<watchdogTimers, orphanTimers, notifs>>
    /\ UNCHANGED <<pipeVars, limits, crashed, accountConfigs, accounts,
                   connectionsActive, reconnectTimers, cur, nextConn,
                   started, stopped, nNotif, nMsgs>>
    /\ lastEmit' = NoEmit

\* ------------------------------------------------------ idle and new mail
\* 'mail' (the mailbox total has grown by n): every registered listener
\* calls fetchNewEmails, which leaves idle and fetches the new range
MailEvent(c) ==
    /\ conn[c].sock = "ready" /\ conn[c].box
    /\ nNotif < MaxNotifs
    /\ \E n \in 1..MaxNew :
         LET k == nNotif + 1
             total == conn[c].total + n
             listeners == conn[c].mailListeners
         IN
         /\ conn' = [conn EXCEPT ![c].total = total,
                        ![c].idling = IF listeners > 0 THEN FALSE ELSE @]
         /\ fetches' = Issue(conn, fetches, c,
                            Copies(listeners, MailFetch(k, total, n)))
         /\ notifs' = IF listeners = 0 \/ conn[c].endCalled THEN notifs
                      ELSE [notifs EXCEPT ![k] =
                              [NoNotif EXCEPT !.conn = c, !.n = n,
                                  !.total = total,
                                  !.eligible = conn[c].idling]]
         /\ nNotif' = k
    /\ lastEmit' = NoEmit
    /\ UNCHANGED <<pipeVars, limits, crashed, accountConfigs, accounts, connectionsActive,
                   watchdogTimers, orphanTimers, reconnectTimers, cur,
                   nextConn, started, stopped, nMsgs>>

WatchdogConn_NoRestart(cn, c, act) == [cn EXCEPT ![c].idling = FALSE]

\* the watchdog callback: imap.idle(false), then restartIdle()
WatchdogConn(cn, c, act) ==
    RestartIdleConn([cn EXCEPT ![c].idling = FALSE], c, act)

\* the watchdog timer held by the map fires: idle(false), restartIdle()
WatchdogFire(a) ==
    /\ watchdogTimers[a].st = "live"
    /\ LET c == watchdogTimers[a].conn
           fired == [watchdogTimers EXCEPT ![a].st = "stale"]
       IN
       /\ conn' = WatchdogConn(conn, c, connectionsActive)
       /\ watchdogTimers' = ArmWatchdog(fired, a, c, connectionsActive)
       /\ orphanTimers' = OrphanOnArm(orphanTimers, fired, a,
                                      connectionsActive)
    /\ UNCHANGED <<pipeVars, limits, crashed, accountConfigs, accounts, connectionsActive,
                   reconnectTimers, fetches, cur, nextConn, started, stopped,
                   notifs, nNotif, nMsgs>>
    /\ lastEmit' = NoEmit

\* a watchdog timer the map no longer holds fires: idle(false),
\* restartIdle() on the connection of its closure
OrphanFire(c) ==
    /\ orphanTimers[c] > 0
    /\ LET a == AcctOf(c)
           fired == [orphanTimers EXCEPT ![c] = @ - 1]
       IN
       /\ conn' = RestartIdleConn([conn EXCEPT ![c].idling = FALSE], c,
                                  connectionsActive)
       /\ watchdogTimers' = ArmWatchdog(watchdogTimers, a, c,
                                        connectionsActive)
       /\ orphanTimers' = OrphanOnArm(fired, watchdogTimers, a,
                                      connectionsActive)
    /\ UNCHANGED <<pipeVars, limits, crashed, accountConfigs, accounts, connectionsActive,
                   reconnectTimers, fetches, cur, nextConn, started, stopped,
                   notifs, nNotif, nMsgs>>
    /\ lastEmit' = NoEmit

\* --------------------------------------------------------- specification
Next ==
    \/ StartSync
    \/ StopSync
    \/ \E a \in Accounts : ReconnectFire(a)
    \/ \E a \in Accounts : WatchdogFire(a)
    \/ \E c \in ConnIds : OrphanFire(c)
    \/ \E c \in ConnIds : ConnReady(c)
    \/ \E c \in ConnIds : ConnError(c)
    \/ \E c \in ConnIds : ConnEnd(c)
    \/ \E c \in ConnIds : UnhandledError(c)
    \/ \E c \in ConnIds : OpenBoxOk(c)
    \/ \E c \in ConnIds : SyncCallbackErr(c)
    \/ \E c \in ConnIds : SearchOk(c)
    \/ \E c \in ConnIds : FetchMessage(c)
    \/ \E c \in ConnIds : SkipMessage(c)
    \/ \E c \in ConnIds : HeaderEnd(c)
    \/ \E c \in ConnIds : BodyEnd(c)
    \/ \E c \in ConnIds : ParseDone(c)
    \/ \E c \in ConnIds : MsgEnd(c)
    \/ \E c \in ConnIds : FetchEnd(c)
    \/ \E c \in ConnIds : FetchError(c)
    \/ \E c \in ConnIds : MailEvent(c)

Spec == Init /\ [][Next]_vars

\* two configured accounts and their connection lifecycle up to idling;
\* every connection object of the run is taken by startSync, so no
\* reconnect can be served, and the server delivers no message
InitMulti == Constructed(<<"a1", "a2">>, RunLimits)

NextMulti ==
    \/ StartSync
    \/ StopSync
    \/ \E c \in ConnIds : ConnReady(c)
    \/ \E c \in ConnIds : ConnError(c)
    \/ \E c \in ConnIds : ConnEnd(c)
    \/ \E c \in ConnIds : UnhandledError(c)
    \/ \E c \in ConnIds : OpenBoxOk(c)
    \/ \E c \in ConnIds : SyncCallbackErr(c)
    \/ \E c \in ConnIds : SearchOk(c)

MultiSpec == InitMulti /\ [][NextMulti]_vars

\* a run of the initial sync alone on a mailbox large enough for a second
\* batch: one account, no failure of the connection, no new mail, no stop
BatchLimits == [search |-> MaxBatchSearch, msgs |-> MaxBatchMsgs]

InitBatch == Constructed(<<"a1">>, BatchLimits)

NextBatch ==
    \/ StartSync
    \/ \E c \in ConnIds : ConnReady(c)
    \/ \E c \in ConnIds : OpenBoxOk(c)
    \/ \E c \in ConnIds : SyncCallbackErr(c)
    \/ \E c \in ConnIds : SearchOk(c)
    \/ \E c \in ConnIds : FetchMessage(c)
    \/ \E c \in ConnIds : SkipMessage(c)
    \/ \E c \in ConnIds : HeaderEnd(c)
    \/ \E c \in ConnIds : BodyEnd(c)
    \/ \E c \in ConnIds : ParseDone(c)
    \/ \E c \in ConnIds : MsgEnd(c)
    \/ \E c \in ConnIds : FetchEnd(c)
    \/ \E c \in ConnIds : FetchError(c)

BatchSpec == InitBatch /\ [][NextBatch]_vars

\* ------------------------------------- the 'emailReceived' pipeline
\* (src/index.ts; both webhook URLs are configured)

\* the identifiers of the records ImapSyncService emits
EmailIds == {MkId("a1", n) : n \in 1..MaxNew}

\* what the Gemini call can end with: a category, HTTP 429 or 503 (the
\* response is not ok), or a rejected fetch (network failure)
ApiOutcomes == {"Interested", "Not Interested", "rateLimited", "unavailable",
                "unreachable"}
ApiFailed(r) == r \in {"rateLimited", "unavailable", "unreachable"}

\* categorizeEmail: the category returned for an outcome of the API call
CategoryOf(r) == IF ApiFailed(r) THEN "Uncategorized" ELSE r

NewJob(id) == [email |-> id, st |-> "index", category |-> "none",
               api |-> "none", calls |-> 0, indexed |-> FALSE,
               stored |-> FALSE]

EsIndex_Append(docs, id) == Append(docs, [id |-> id, aiCategory |-> "none"])

\* client.index({ index, id: email.id, document }): creates the document
\* with this _id or replaces it
EsIndex(docs, id) ==
    Append(SelectSeq(docs, LAMBDA d : d.id # id),
           [id |-> id, aiCategory |-> "none"])

\* client.update({ index, id, doc: { aiCategory } })
EsUpdate(docs, id, category) ==
    [i \in 1..Len(docs) |->
        IF docs[i].id = id THEN [docs[i] EXCEPT !.aiCategory = category]
        ELSE docs[i]]

Notifies_Always(category) == TRUE

\* if (category === 'Interested') and the same test in
\* notifyInterestedEmail
Notifies(category) == category = "Interested"

\* the state of ImapSyncService, which the pipeline does not touch
syncVars == <<limits, crashed, accountConfigs, accounts, connectionsActive,
              watchdogTimers, orphanTimers, reconnectTimers, conn, fetches,
              cur, nextConn, started, stopped, notifs, nNotif, nMsgs,
              lastEmit>>

\* 'emailReceived': the handler calls indexEmail, which sends the index
\* request
EmailReceived(id) ==
    /\ Len(jobs) < MaxJobs
    /\ UNCHANGED <<syncVars, retry>>
    /\ jobs' = Append(jobs, NewJob(id))
    /\ UNCHANGED <<esDocs, webhooks>>

\* the index request succeeds: the handler goes on to categorizeEmail,
\* which sends one request to the Gemini API
IndexOk(j) ==
    /\ j <= Len(jobs) /\ jobs[j].st = "index"
    /\ UNCHANGED <<syncVars, retry>>
    /\ esDocs' = EsIndex(esDocs, jobs[j].email)
    /\ jobs' = [jobs EXCEPT ![j].st = "categorize", ![j].indexed = TRUE,
                            ![j].calls = 1]
    /\ UNCHANGED webhooks

\* the index request fails: indexEmail rethrows, the handler logs
IndexFail(j) ==
    /\ j <= Len(jobs) /\ jobs[j].st = "index"
    /\ UNCHANGED <<syncVars, retry>>
    /\ jobs' = [jobs EXCEPT ![j].st = "failed"]
    /\ UNCHANGED <<esDocs, webhooks>>

\* the Gemini call ends: categorizeEmail returns a category (the default
\* one on any failure) and the handler calls updateCategory
CategorizeReturn(j, r) ==
    /\ j <= Len(jobs) /\ jobs[j].st = "categorize"
    /\ UNCHANGED <<syncVars, retry>>
    /\ jobs' = [jobs EXCEPT ![j].st = "update", ![j].api = r,
                            ![j].category = CategoryOf(r)]
    /\ UNCHANGED <<esDocs, webhooks>>

\* the update request succeeds: for an 'Interested' email the handler
\* calls notifyInterestedEmail, which sends the Slack request
UpdateOk(j) ==
    /\ j <= Len(jobs) /\ jobs[j].st = "update"
    /\ UNCHANGED <<syncVars, retry>>
    /\ esDocs' = EsUpdate(esDocs, jobs[j].email, jobs[j].category)
    /\ IF Notifies(jobs[j].category)
       THEN /\ jobs' = [jobs EXCEPT ![j].st = "slack", ![j].stored = TRUE]
            /\ webhooks' = Append(webhooks, [job |-> j, channel |-> "slack"])
       ELSE /\ jobs' = [jobs EXCEPT ![j].st = "done", ![j].stored = TRUE]
            /\ UNCHANGED webhooks

\* the update request fails: updateEmail rethrows, the handler logs
UpdateFail(j) ==
    /\ j <= Len(jobs) /\ jobs[j].st = "update"
    /\ UNCHANGED <<syncVars, retry>>
    /\ jobs' = [jobs EXCEPT ![j].st = "failed"]
    /\ UNCHANGED <<esDocs, webhooks>>

\* the Slack request ends (a failure is only logged):
\* sendExternalWebhook sends its request
SlackDone(j) ==
    /\ j <= Len(jobs) /\ jobs[j].st = "slack"
    /\ UNCHANGED <<syncVars, retry>>
    /\ jobs' = [jobs EXCEPT ![j].st = "external"]
    /\ webhooks' = Append(webhooks, [job |-> j, channel |-> "external"])
    /\ UNCHANGED esDocs

\* the external webhook request ends (a failure is only logged)
ExternalDone(j) ==
    /\ j <= Len(jobs) /\ jobs[j].st = "external"
    /\ UNCHANGED <<syncVars, retry>>
    /\ jobs' = [jobs EXCEPT ![j].st = "done"]
    /\ UNCHANGED <<esDocs, webhooks>>

NextPipeline ==
    \/ \E id \in EmailIds : EmailReceived(id)
    \/ \E j \in 1..MaxJobs : IndexOk(j)
    \/ \E j \in 1..MaxJobs : IndexFail(j)
    \/ \E j \in 1..MaxJobs : \E r \in ApiOutcomes : CategorizeReturn(j, r)
    \/ \E j \in 1..MaxJobs : UpdateOk(j)
    \/ \E j \in 1..MaxJobs : UpdateFail(j)
    \/ \E j \in 1..MaxJobs : SlackDone(j)
    \/ \E j \in 1..MaxJobs : ExternalDone(j)

PipelineSpec == Init /\ [][NextPipeline]_vars

\* the client delivers what it owes to connection c
Deliver(c) ==
    \/ ConnReady(c) \/ OpenBoxOk(c) \/ SyncCallbackErr(c) \/ SearchOk(c)
    \/ FetchMessage(c) \/ SkipMessage(c) \/ HeaderEnd(c) \/ BodyEnd(c)
    \/ ParseDone(c) \/ MsgEnd(c) \/ FetchEnd(c) \/ FetchError(c)

\* ------------------------------------------------------ retryWithBackoff
\* the arguments of a call: maxRetries and initialDelay
RetryArgs == (1..MaxRetriesArg) \cup {DefaultMaxRetries}
DelayArgs == (1..MaxDelayArg) \cup {DefaultInitialDelay}

GivesUp_Late(retries, maxRetries) == retries > maxRetries

\* if (retries >= maxRetries) throw error
GivesUp(retries, maxRetries) == retries >= maxRetries

\* delay *= 2
Backoff(delay) == delay * 2

\* retryWithBackoff(operation, maxRetries, initialDelay) is called: the
\* counters are set and the loop invokes operation for the first time
RetryWithBackoff(m, d) ==
    /\ retry.st = "none"
    /\ retry' = [NoCall EXCEPT !.st = "calling", !.maxRetries = m,
                               !.initialDelay = d, !.delay = d, !.calls = 1]
    /\ UNCHANGED <<syncVars, jobs, esDocs, webhooks>>

\* operation() resolves: its value is returned
OperationResolves ==
    /\ retry.st = "calling"
    /\ retry' = [retry EXCEPT !.st = "returned",
                     !.result = [kind |-> "value", call |-> retry.calls]]
    /\ UNCHANGED <<syncVars, jobs, esDocs, webhooks>>

\* operation() rejects: the error is rethrown once retries reaches
\* maxRetries, otherwise the loop sleeps for the current delay
OperationRejects ==
    /\ retry.st = "calling"
    /\ LET r == retry.retries + 1 IN
       retry' = IF GivesUp(r, retry.maxRetries)
                THEN [retry EXCEPT !.retries = r, !.st = "thrown",
                         !.result = [kind |-> "error", call |-> retry.calls]]
                ELSE [retry EXCEPT !.retries = r, !.st = "waiting",
                         !.waits = Append(@, retry.delay)]
    /\ UNCHANGED <<syncVars, jobs, esDocs, webhooks>>

\* the sleep is over: the delay doubles and the loop invokes operation again
DelayElapsed ==
    /\ retry.st = "waiting"
    /\ retry' = [retry EXCEPT !.st = "calling", !.delay = Backoff(@),
                              !.calls = @ + 1]
    /\ UNCHANGED <<syncVars, jobs, esDocs, webhooks>>

NextRetry ==
    \/ \E m \in RetryArgs, d \in DelayArgs : RetryWithBackoff(m, d)
    \/ OperationResolves
    \/ OperationRejects
    \/ DelayElapsed

RetrySpec == Init /\ [][NextRetry]_vars

\* the operation settles and the timer of a sleep fires
FairRetrySpec == RetrySpec /\ WF_vars(NextRetry)

\* timers fire and the client keeps delivering; 'error', 'end', 'mail' and
\* stopSync may or may not happen
Fairness ==
    /\ \A c \in ConnIds : WF_vars(Deliver(c))
    /\ \A a \in Accounts : WF_vars(ReconnectFire(a))

FairSpec == Spec /\ Fairness

\* ------------------------------------------------------------------ claims
Live(c) == conn[c].sock \in {"connecting", "ready"} \/ conn[c].idling
MailFetches(c) == {i \in 1..Len(fetches[c]) : fetches[c][i].kind = "mail"}
WellFormed(kind) == kind \in {"text", "nosubj"}
MsgEnded(c) == cur[c].num # 0 /\ cur'[c].num = 0 /\ conn'[c].sock = "ready"

\* C1: once stopSync() has returned, no connection attempt is made for any
\* account: no connection object is created while stopped.
C1_NoConnectAfterStop == [][stopped => nextConn' = nextConn]_vars

\* C2: whenever a ready connection emits 'error' or 'end' while stopSync()
\* has not been called (and the run's connection budget is not used up), a
\* reconnect for its account is scheduled, so that a connection attempt
\* follows after the delay.
C2_ReconnectScheduled ==
    [][\A c \in ConnIds :
         (/\ ~stopped
          /\ conn[c].sock = "ready"
          /\ conn'[c].sock = "closed"
          /\ (nextConn - 1) + PendingReconnects < MaxConns)
         => reconnectTimers'[conn[c].acct] > 0]_vars

\* C3: while the engine runs, each account has at most one live connection
\* handle: a connection that was replaced by a reconnect neither is
\* connected nor idles.
C3_OneLiveHandle ==
    ~stopped =>
        \A a \in Accounts :
            Cardinality({c \in ConnIds : conn[c].acct = a /\ Live(c)}) <= 1

\* C4: after startSync() every configured account eventually idles, unless
\* one of its connections emits 'error' or 'end', stopSync() is called, or
\* its sync is rejected with an error of openBox, search or fetch.
C4_EventuallyIdle ==
    \A a \in Accounts :
        (started /\ \E i \in 1..Len(accountConfigs) : accountConfigs[i] = a)
            ~> (\/ \E c \in ConnIds : conn[c].acct = a /\ conn[c].idling
                \/ \E c \in ConnIds : conn[c].acct = a
                                       /\ (conn[c].evErr \/ conn[c].evEnd)
                \/ \E c \in ConnIds : conn[c].acct = a
                                       /\ conn[c].sync = "rejected"
                \/ stopped)

\* C5: while the engine runs, on a connection at most one
\* notification-triggered fetch is in flight, and the connection does not
\* idle while one is.
C5_OneFetchNoIdle ==
    ~stopped =>
        \A c \in ConnIds :
            /\ Cardinality(MailFetches(c)) <= 1
            /\ ~(conn[c].idling /\ MailFetches(c) # {})

\* C6: when the last fetch of a notification of n well-formed messages
\* ends, exactly n records were emitted for it, and the records of a
\* notification are emitted in ascending order of message number.
C6_ExactlyNAscending ==
    [][/\ \A k \in NotifIds :
            (/\ notifs[k].conn # 0 /\ notifs[k].eligible
             /\ notifs'[k].conn = 0
             /\ conn'[notifs[k].conn].sock = "ready")
            => notifs[k].emitted = notifs[k].n
       /\ (lastEmit'.src = "mail" /\ notifs[lastEmit'.notif].eligible)
            => lastEmit'.num > notifs[lastEmit'.notif].lastNum]_vars

\* C7: every fetch issued for a notification of N new messages with
\* reported total T requests the range [T-N+1, T], N sequence numbers.
C7_FetchRange ==
    \A c \in ConnIds : \A i \in MailFetches(c) :
        LET f == fetches[c][i]
            N == notifs[f.notif].n
            T == notifs[f.notif].total
        IN /\ 1 <= N /\ N <= T
           /\ f.lo = T - N + 1
           /\ f.hi = T
           /\ Cardinality(f.lo..f.hi) = N

C7_Witness ==
    \E c \in ConnIds : \E i \in MailFetches(c) :
        notifs[fetches[c][i].notif].n = 2 /\ fetches[c][i].lo > 1

\* C8: the identifier of an emitted record is the one built from the
\* account and the server's number of the message, never the random one.
C8_DeterministicId ==
    lastEmit.conn # 0 =>
        /\ lastEmit.id = <<lastEmit.acct, lastEmit.num>>
        /\ lastEmit.id # Uuid

C8_Witness == lastEmit.conn = 2 /\ lastEmit.src = "sync"

\* C9: when a delivered message with a header and a non-empty text body
\* ends, one record is emitted for it, whatever the order of the header
\* end, the body end, the parse completion and the message end.
C9_OneRecordPerMessage ==
    [][\A c \in ConnIds :
         (MsgEnded(c) /\ WellFormed(cur[c].kind))
         => (lastEmit'.conn = c /\ lastEmit'.num = cur[c].num)]_vars

C11_ParseFailureDropped ==
    [][\A c \in ConnIds :
         (MsgEnded(c) /\ cur[c].kind = "bad") => lastEmit'.conn = 0]_vars

\* the initial sync of c was rejected by a fetch 'error'
FetchRejected(c) == conn[c].sync = "rejected" /\ conn[c].batches # <<>>

\* a historical sync run of account a is under way
Syncing(a) ==
    \E c \in ConnIds : conn[c].acct = a
                       /\ conn[c].sync \in {"openBox", "search", "fetching"}

\* C12: after a fetch 'error' rejected the initial sync of an account, a
\* new historical sync run of the account eventually begins (or the account
\* idles), unless the connection is closed by 'error' or 'end' or stopSync()
\* is called.
C12_SyncRestarted ==
    \A c \in ConnIds :
        FetchRejected(c)
            ~> (\/ Syncing(conn[c].acct)
                \/ \E d \in ConnIds : conn[d].acct = conn[c].acct
                                      /\ conn[d].idling
                \/ conn[c].sock = "closed"
                \/ stopped)

\* C13: no record is emitted from a connection after stopSync() has called
\* end() on it, even when message 'end' events of a fetch that was in
\* flight at the stop are delivered afterwards.
C13_NoEmitAfterStop ==
    lastEmit.conn # 0 => ~conn[lastEmit.conn].endCalled

\* C14: when stopSync() returns, no watchdog timer is pending (neither the
\* one the map held nor an earlier one) and end() has been called on every
\* connection that is still open.
C14_StopCancelsAll ==
    [][(~stopped /\ stopped') =>
          /\ \A a \in Accounts : watchdogTimers'[a].st # "live"
          /\ \A c \in ConnIds : orphanTimers'[c] = 0
          /\ \A c \in ConnIds : conn'[c].sock \in {"connecting", "ready"}
                                => conn'[c].endCalled]_vars

\* connection c emits 'error' or 'end' in this step
ClosingEvent(c) ==
    \/ conn'[c].evErr # conn[c].evErr
    \/ conn'[c].evEnd # conn[c].evEnd
    \/ crashed' # crashed /\ conn[c].evErr

\* the entries of account b and its connection objects are left alone
Untouched(b) ==
    /\ accounts'[b] = accounts[b]
    /\ connectionsActive'[b] = connectionsActive[b]
    /\ watchdogTimers'[b] = watchdogTimers[b]
    /\ \A d \in ConnIds : conn[d].acct = b => conn'[d] = conn[d]

\* C15: an 'error' or 'end' event of a connection of one account (a failed
\* connect included) leaves the connection, active flag and watchdog timer
\* of every other account unchanged, and startSync() gives every
\* configured account a connection.
C15_OtherAccountsUntouched ==
    [][/\ \A c \in ConnIds :
            ClosingEvent(c) =>
                \A b \in Accounts \ {conn[c].acct} : Untouched(b)
       /\ (~started /\ started') =>
            \A i \in 1..Len(accountConfigs) :
                /\ accounts'[accountConfigs[i]] # 0
                /\ conn'[accounts'[accountConfigs[i]]].sock = "connecting"]_vars

\* the documents of the index stored under identifier id
DocsOf(id) == {i \in 1..Len(esDocs) : esDocs[i].id = id}

\* C16: however often the same identifier is handled, the index holds at
\* most one document for it, and exactly one once an index request for it
\* has succeeded.
C16_OneDocumentPerId ==
    \A id \in EmailIds :
        /\ Cardinality(DocsOf(id)) <= 1
        /\ (\E j \in 1..Len(jobs) : jobs[j].email = id /\ jobs[j].indexed)
              => Cardinality(DocsOf(id)) = 1

C16_Witness ==
    /\ Len(jobs) = 2
    /\ jobs[1].email = jobs[2].email
    /\ jobs[1].indexed /\ jobs[2].indexed

\* the requests sent for handler run j on a channel
SentFor(j, channel) ==
    {i \in 1..Len(webhooks) :
        webhooks[i].job = j /\ webhooks[i].channel = channel}

C19_RetriesBeforeGivingUp ==
    [][\A j \in 1..MaxJobs :
         (/\ j <= Len(jobs)
          /\ jobs[j].st = "categorize"
          /\ jobs'[j].st = "update"
          /\ jobs'[j].api \in {"rateLimited", "unavailable"})
         => jobs[j].calls >= 2]_vars

\* the search callback of c runs without error and with an empty result
\* in this step
EmptySearch(c) ==
    /\ conn[c].sync = "search" /\ conn[c].total = 0
    /\ conn'[c].sync \notin {"search", "rejected"}
    /\ conn'[c].sock = "ready"

RECURSIVE Flatten(_)
Flatten(bs) == IF bs = <<>> THEN <<>> ELSE Head(bs) \o Flatten(Tail(bs))

Elems(seq) == {seq[i] : i \in 1..Len(seq)}

\* the batch the initial sync of c is working on
CurrentBatch(c) == conn[c].batches[conn[c].batchIndex + 1]

\* C20: the search result is split, in order, into batches of at most
\* batchSize identifiers; the fetch of the next batch is issued at the end
\* of the last message of the current one, when no message of an earlier
\* fetch is outstanding; and a record emitted by the initial sync belongs
\* to the batch being worked on, so the records of a batch precede those
\* of the next.
C20_BatchesSequential ==
    [][\A c \in ConnIds :
         /\ (conn[c].sync = "search" /\ conn'[c].sync = "fetching") =>
               /\ Flatten(conn'[c].batches) = Range(1, conn[c].total)
               /\ \A k \in 1..Len(conn'[c].batches) :
                     /\ Len(conn'[c].batches[k]) >= 1
                     /\ Len(conn'[c].batches[k]) <= batchSize
               /\ fetches'[c] = <<SyncFetch(conn'[c].batches[1])>>
         /\ (conn[c].sync = "fetching"
             /\ conn'[c].batchIndex # conn[c].batchIndex) =>
               /\ conn'[c].batchIndex = conn[c].batchIndex + 1
               /\ conn[c].processedCount + 1 = Len(CurrentBatch(c))
               /\ cur[c].num # 0 /\ cur'[c].num = 0
               /\ \A i \in 1..Len(fetches[c]) : fetches[c][i].todo = <<>>
               /\ fetches'[c] = Append(fetches[c],
                     SyncFetch(conn[c].batches[conn'[c].batchIndex + 1]))
         /\ (lastEmit'.conn = c /\ lastEmit'.src = "sync") =>
               lastEmit'.num \in Elems(CurrentBatch(c))]_vars

C20_Witness == lastEmit.src = "sync" /\ lastEmit.num = batchSize + 1

\* C21: once a fetch error has rejected the initial sync of a connection,
\* no fetch of that sync run is issued and no record of the run is
\* emitted.
C21_NothingAfterFetchError ==
    [][\A c \in ConnIds :
         FetchRejected(c) =>
            /\ Len(fetches'[c]) <= Len(fetches[c])
            /\ ~(lastEmit'.conn = c /\ lastEmit'.src = "sync")]_vars

\* C22: an open connection idles or has a new-mail listener only when its
\* own initial sync has resolved, and the 'ready' event of every
\* connection, first or reconnected, starts the initial sync.
C22_IdleOnlyAfterSync ==
    [][\A c \in ConnIds :
         /\ (conn'[c].sock = "ready"
             /\ (conn'[c].idling \/ conn'[c].mailListeners > 0))
               => conn'[c].sync = "resolved"
         /\ (conn[c].sock = "connecting" /\ conn'[c].sock = "ready")
               => /\ conn'[c].sync \in {"openBox", "unserved"}
                  /\ ~conn'[c].idling /\ conn'[c].mailListeners = 0]_vars

C22_Witness ==
    /\ conn[2].sock = "ready" /\ conn[2].idling
    /\ conn[2].sync = "resolved" /\ conn[2].mailListeners > 0

\* the watchdog timers pending for account a: the one the map holds and
\* the earlier ones of its connections that were never cleared
PendingWatchdogs(a) ==
    LET RECURSIVE Sum(_)
        Sum(S) == IF S = {} THEN 0
                  ELSE LET c == CHOOSE x \in S : TRUE
                       IN orphanTimers[c] + Sum(S \ {c})
    IN (IF watchdogTimers[a].st = "live" THEN 1 ELSE 0)
       + Sum({c \in ConnIds : conn[c].acct = a})

\* C23: while the engine runs, an account has at most one pending watchdog
\* timer, and the timer the map holds is pending only while its connection
\* idles.
C23_OneWatchdogWhileIdle ==
    ~stopped =>
        \A a \in Accounts :
            /\ PendingWatchdogs(a) <= 1
            /\ watchdogTimers[a].st = "live"
                  => conn[watchdogTimers[a].conn].idling

\* no 'mail' notification of connection c is being served
NoNewMail(c) == \A k \in NotifIds : notifs[k].conn # c

\* the watchdog of account a is pending on its active, idling connection
WatchdogDue(a) ==
    /\ watchdogTimers[a].st = "live"
    /\ connectionsActive[a] = "true"
    /\ conn[watchdogTimers[a].conn].sock = "ready"
    /\ conn[watchdogTimers[a].conn].idling
    /\ NoNewMail(watchdogTimers[a].conn)

\* C24: when the watchdog fires on an active idling connection with no new
\* mail, the connection idles again with a pending watchdog of its own, no
\* fetch is issued, no record is emitted and the mailbox total is unchanged.
C24_WatchdogReentersIdle ==
    [][\A a \in Accounts :
         (WatchdogDue(a) /\ WatchdogFire(a)) =>
            LET c == watchdogTimers[a].conn
            IN /\ conn'[c].idling
               /\ watchdogTimers'[a] = [st |-> "live", conn |-> c]
               /\ fetches' = fetches
               /\ lastEmit' = NoEmit
               /\ conn'[c].total = conn[c].total
               /\ nMsgs' = nMsgs]_vars

\* the watchdog is due right after the initial sync emitted its last record
C24_Witness ==
    \E a \in Accounts : WatchdogDue(a) /\ lastEmit.src = "sync"

\* C25: a connection never has more than one 'mail' listener, and has one
\* whenever it idles.
C25_OneMailListener ==
    \A c \in ConnIds :
        /\ conn[c].mailListeners <= 1
        /\ conn[c].idling => conn[c].mailListeners = 1

\* the server's 'mail' notification reaches connection c in this step
Notified(c) == nNotif' = nNotif + 1 /\ conn'[c].total > conn[c].total

\* C26: a 'mail' notification on a ready connection that has not been told
\* to end starts a fetch of the new messages; the listener is the only
\* place that issues it, so a notification that starts none is never served.
C26_NotificationFetched ==
    [][\A c \in ConnIds :
         (Notified(c) /\ conn[c].sock = "ready" /\ ~conn[c].endCalled)
            => Len(fetches'[c]) > Len(fetches[c])]_vars

\* the fetch command at the head of connection c's queue was issued by
\* fetchNewEmails and finishes in this step, by 'end' or by 'error'
MailFetchFinishes(c) ==
    /\ fetches[c] # <<>> /\ Head(fetches[c]).kind = "mail"
    /\ Len(fetches'[c]) < Len(fetches[c])
    /\ conn'[c].sock = "ready"

\* C27: when a notification-triggered fetch finishes on a connection whose
\* account is marked active, normally or with a fetch error, the connection
\* is idling again with a pending watchdog.
C27_IdleAfterMailFetch ==
    [][\A c \in ConnIds :
         (MailFetchFinishes(c) /\ connectionsActive[AcctOf(c)] = "true")
            => /\ conn'[c].idling
               /\ watchdogTimers'[AcctOf(c)] = [st |-> "live", conn |-> c]]_vars

\* a notification-triggered fetch has finished and idle was started again
C27_Witness ==
    \E c \in ConnIds :
        /\ conn[c].sock = "ready" /\ conn[c].idling
        /\ conn[c].mailListeners = 2 /\ fetches[c] = <<>>
        /\ connectionsActive[AcctOf(c)] = "true"

\* C28: every 'error' a connection emits finds a registered handler, so
\* the process is never terminated by an unhandled connection error.
C28_EveryErrorHandled == ~stopped => ~crashed

\* the last fetch command the initial sync of c has issued finishes in this
\* step, and the connection stays up
LastSyncFetchFinishes(c) ==
    /\ fetches[c] # <<>> /\ Head(fetches[c]).kind = "sync"
    /\ Len(fetches'[c]) < Len(fetches[c])
    /\ \A i \in 1..Len(fetches'[c]) : fetches'[c][i].kind # "sync"
    /\ conn'[c].sock = "ready" /\ ~conn[c].endCalled

\* C29: once every fetch the initial sync has issued has ended or failed,
\* the sync has settled: it is resolved or rejected, also when a fetch
\* delivered fewer messages than its batch requested.
C29_SyncSettles ==
    [][\A c \in ConnIds :
         (LastSyncFetchFinishes(c) /\ conn[c].sync \in {"fetching", "resolved", "rejected"})
            => conn'[c].sync \in {"resolved", "rejected"}]_vars

RECURSIVE Pow2(_)
Pow2(n) == IF n = 0 THEN 1 ELSE 2 * Pow2(n - 1)

\* the call of retryWithBackoff has returned or thrown
Settled == retry.st \in {"returned", "thrown"}

\* the sleeps so far: the k-th retry was preceded by initialDelay * 2^(k-1)
BackoffSchedule ==
    /\ Len(retry.waits) = (IF retry.st = "waiting" THEN retry.calls
                           ELSE retry.calls - 1)
    /\ \A k \in 1..Len(retry.waits) :
          retry.waits[k] = retry.initialDelay * Pow2(k - 1)

RetryCorrect ==
    retry.st # "none" =>
        /\ retry.calls <= retry.maxRetries
        /\ BackoffSchedule
        /\ retry.st = "returned" =>
              /\ retry.result = [kind |-> "value", call |-> retry.calls]
              /\ retry.retries = retry.calls - 1
        /\ retry.st = "thrown" =>
              /\ retry.calls = retry.maxRetries
              /\ retry.retries = retry.maxRetries
              /\ retry.result = [kind |-> "error", call |-> retry.maxRetries]

\* C30: for maxRetries >= 1, retryWithBackoff invokes operation at most
\* maxRetries times, returns the value of the first invocation that
\* succeeds, rethrows the error of the maxRetries-th failure, sleeps
\* initialDelay * 2^(k-1) before the k-th retry, and every call settles.
C30_RetryWithBackoff ==
    /\ []RetryCorrect
    /\ [][Settled => retry' = retry]_vars
    /\ (retry.st # "none") ~> Settled

\* a call with the default arguments has thrown after four sleeps
C30_Witness ==
    /\ retry.st = "thrown" /\ retry.maxRetries = DefaultMaxRetries
    /\ retry.initialDelay = DefaultInitialDelay
    /\ retry.waits = <<1000, 2000, 4000, 8000>>

====
